---- MODULE Spec2Model ----
(***************************************************************************)
(* Model of the Thirai-Ulagam catalogue browser.                           *)
(*   src/script.js                 poster cards with a debounced hover     *)
(*                                 preview, preview selection              *)
(*   src/netlify/functions/tmdb.js the serverless TMDb proxy (dispatcher)  *)
(***************************************************************************)
EXTENDS Integers, Sequences, FiniteSets, TLC

\* ---------------------------------------------------------------- bounds
\* hover sessions (mouseenter calls) followed on one card
MaxSessions == 3
\* longest data.results list delivered to a selection
MaxLen == 3
\* longest data.results list delivered to a card preview or to the hero
MaxResults == 2
\* longest data.results list delivered to a row
MaxRowLen == 1
\* setHero invocations followed
MaxHero == 2

\* ------------------------------------------------------- preview media
Sites == {"YouTube", "Vimeo"}
VideoTypes == {"Trailer", "Teaser", "Clip", "Featurette"}
\* one entry of data.results; its key is its position in the list
Video == [site : Sites, type : VideoTypes]
VideoLists == UNION {[1..n -> Video] : n \in 0..MaxLen}
FetchedLists == UNION {[1..n -> Video] : n \in 0..MaxResults}

\* the predicate of the card preview's find
CardAccepts(v) == v.site = "YouTube" /\ (v.type = "Trailer" \/ v.type = "Teaser" \/ v.type = "Clip")
\* the predicate of the hero's find
HeroAccepts(v) == v.site = "YouTube" /\ (v.type = "Trailer" \/ v.type = "Teaser")

\* Array.prototype.find scanning from position i; hits are the positions whose
\* element satisfies the predicate; 0 (undefined) when the scan runs off the end
RECURSIVE FindFrom(_, _, _)
FindFrom(list, hits, i) ==
  IF i > Len(list) THEN 0
  ELSE IF i \in hits THEN i
  ELSE FindFrom(list, hits, i + 1)

\* variant: the scan runs from the end of the list
RECURSIVE FindBackFrom(_, _, _)
FindBackFrom(list, hits, i) ==
  IF i < 1 THEN 0
  ELSE IF i \in hits THEN i
  ELSE FindBackFrom(list, hits, i - 1)

\* variant: the last matching element instead of the first
FindLast(list, hits) == FindBackFrom(list, hits, Len(list))

\* Array.prototype.find: position of the first matching element
FindFirst(list, hits) == FindFrom(list, hits, 1)

CardFind(results) ==
  FindFirst(results, {i \in 1..Len(results) : CardAccepts(results[i])})
HeroFind(results) ==
  FindFirst(results, {i \in 1..Len(results) : HeroAccepts(results[i])})

\* ------------------------------------------------------------ variables
VARIABLES
  previewTimer,   \* closure variable of the card: 0 (null) or a timer id
  armed,          \* timer ids scheduled by setTimeout and neither fired nor cleared
  children,       \* .preview-frame elements attached to the card, document order
  frames,         \* frame id -> what the frame shows
  inflight,       \* frames whose tmdbFetch has been issued and has not settled
  fetched,        \* hover sessions whose tmdbFetch has been issued
  swept,          \* hover sessions left while their timer was still armed
  settled,        \* frame -> how the fetch issued for it settled
  nextId,         \* next timer id
  pointerOver,    \* the pointer is inside the card
  lastPointer,    \* last pointer event handled by the card
  lastEvent       \* last event of any kind handled by the card

VARIABLES
  TMDB_API_KEY,   \* process.env.TMDB_API_KEY
  pc,             \* position of the handler: "idle", "awaiting" (the upstream fetch), "done"
  event,          \* event.queryStringParameters of the invocation
  targetUrl,      \* the upstream URL built by the handler
  upstreamCalls,  \* upstream fetches issued by the invocation
  upstream,       \* how the upstream fetch settled
  promise,        \* the handler's promise: "pending", "fulfilled", "rejected"
  response        \* the envelope the handler returned

VARIABLES
  results,        \* a data.results list handed to the selection
  heroVid,        \* index selected for the hero, 0 when none
  cardVid,        \* index selected for the card preview, 0 when none
  selected        \* the selections have been made

VARIABLES
  rowIdx,         \* init: 0 before it runs, g while makeRow of bucket g awaits,
                  \* NumGenres+1 while the featured fetch is awaited, NumGenres+2 after
  rowTrack,       \* bucket -> what its row track shows
  rowResponse,    \* bucket -> how its discovery fetch settled
  rowRequests     \* bucket -> discovery fetches issued for it

VARIABLES
  heroTitle,      \* movie whose title and overview the hero shows, 0 before any
  heroMedia,      \* content of heroVideoContainer
  heroPending,    \* setHero invocations whose fetch has not settled
  heroMovie,      \* invocation -> its movie, 0 when unused
  heroOutcome,    \* invocation -> how its fetch settled
  heroCount       \* setHero invocations so far

VARIABLES
  clientPc,       \* tmdbFetch: "idle", "waiting" (for the function), "returned", "threw"
  httpRequests,   \* fetch calls made by the tmdbFetch call
  clientData      \* the value tmdbFetch returned

cardVars == <<previewTimer, armed, children, frames, inflight, fetched, swept,
              settled, nextId, pointerOver, lastPointer, lastEvent>>
handlerVars == <<TMDB_API_KEY, pc, event, targetUrl, upstreamCalls, upstream,
                 promise, response>>
selectVars == <<results, heroVid, cardVid, selected>>
rowVars == <<rowIdx, rowTrack, rowResponse, rowRequests>>
heroVars == <<heroTitle, heroMedia, heroPending, heroMovie, heroOutcome, heroCount>>
clientVars == <<clientPc, httpRequests, clientData>>
vars == <<cardVars, handlerVars, selectVars, rowVars, heroVars, clientVars>>

SessionIds == 1..MaxSessions

NoFrame == [kind |-> "none", key |-> 0]
EmptyFrame == [kind |-> "empty", key |-> 0]
PlayerFrame(k) == [kind |-> "player", key |-> k]
NotAvailableFrame == [kind |-> "notavailable", key |-> 0]
FailedFrame == [kind |-> "failed", key |-> 0]

\* outcomes of tmdbFetch: a thrown error, or data whose results may be missing
FetchOutcomes ==
  {[ok |-> FALSE, hasResults |-> FALSE, results |-> <<>>]}
  \cup {[ok |-> TRUE, hasResults |-> FALSE, results |-> <<>>]}
  \cup {[ok |-> TRUE, hasResults |-> TRUE, results |-> l] : l \in FetchedLists}

\* data.results || []
ResultsOrEmpty(o) == IF o.hasResults THEN o.results ELSE <<>>

\* how a fetch settled, as far as a selection with the given types can tell
Settled(o, types) ==
  IF ~o.ok THEN "error"
  ELSE IF \E i \in 1..Len(ResultsOrEmpty(o)) :
            /\ ResultsOrEmpty(o)[i].site = "YouTube"
            /\ ResultsOrEmpty(o)[i].type \in types
       THEN "match" ELSE "nomatch"

CardInit ==
  /\ previewTimer = 0
  /\ armed = {}
  /\ children = <<>>
  /\ frames = [f \in SessionIds |-> NoFrame]
  /\ inflight = {}
  /\ fetched = {}
  /\ swept = {}
  /\ settled = [f \in SessionIds |-> "none"]
  /\ nextId = 1
  /\ pointerOver = FALSE
  /\ lastPointer = "none"
  /\ lastEvent = "none"

\* the mouseenter handler: setTimeout(..., 350) and remember the handle
OnMouseEnter ==
  /\ nextId <= MaxSessions
  /\ previewTimer' = nextId
  /\ armed' = armed \cup {nextId}
  /\ nextId' = nextId + 1
  /\ pointerOver' = TRUE
  /\ lastPointer' = "enter"
  /\ lastEvent' = "enter"
  /\ UNCHANGED <<children, frames, inflight, fetched, swept, settled>>

\* mouseenter as a pointer raises it: the pointer comes in from outside the card
MouseEnter == ~pointerOver /\ OnMouseEnter

\* the timeout callback up to its await: mount an empty frame, issue the fetch
TimerFire ==
  \E t \in armed :
    /\ armed' = armed \ {t}
    /\ frames' = [frames EXCEPT ![t] = EmptyFrame]
    /\ children' = Append(children, t)
    /\ inflight' = inflight \cup {t}
    /\ fetched' = fetched \cup {t}
    /\ lastEvent' = "fire"
    /\ UNCHANGED <<previewTimer, swept, settled, nextId, pointerOver, lastPointer>>

\* variant: the catch block renders nothing
FrameAfterFetchSilent(o) ==
  IF ~o.ok THEN EmptyFrame
  ELSE IF CardFind(ResultsOrEmpty(o)) # 0
       THEN PlayerFrame(CardFind(ResultsOrEmpty(o)))
       ELSE NotAvailableFrame

\* what the callback writes into its own frame once the fetch has settled
FrameAfterFetch(o) ==
  IF ~o.ok THEN FailedFrame
  ELSE IF CardFind(ResultsOrEmpty(o)) # 0
       THEN PlayerFrame(CardFind(ResultsOrEmpty(o)))
       ELSE NotAvailableFrame

\* variant: the settled fetch mounts its frame again when it finds it detached
FetchResolveRemounting ==
  \E f \in inflight, o \in FetchOutcomes :
    /\ inflight' = inflight \ {f}
    /\ frames' = [frames EXCEPT ![f] = FrameAfterFetch(o)]
    /\ children' = IF \E i \in 1..Len(children) : children[i] = f
                   THEN children ELSE Append(children, f)
    /\ settled' = [settled EXCEPT ![f] = Settled(o, {"Trailer", "Teaser", "Clip"})]
    /\ lastEvent' = "resolve"
    /\ UNCHANGED <<previewTimer, armed, fetched, swept, nextId,
                   pointerOver, lastPointer>>

\* variant: the result is written into the frame found on the card, not into
\* the frame the callback created
FetchResolveIntoAttached ==
  \E f \in inflight, o \in FetchOutcomes :
    /\ inflight' = inflight \ {f}
    /\ frames' = IF children = <<>> THEN frames
                 ELSE [frames EXCEPT ![Head(children)] = FrameAfterFetch(o)]
    /\ settled' = [settled EXCEPT ![f] = Settled(o, {"Trailer", "Teaser", "Clip"})]
    /\ lastEvent' = "resolve"
    /\ UNCHANGED <<previewTimer, armed, children, fetched, swept, nextId,
                   pointerOver, lastPointer>>

\* the timeout callback after its await
FetchResolve ==
  \E f \in inflight, o \in FetchOutcomes :
    /\ inflight' = inflight \ {f}
    /\ frames' = [frames EXCEPT ![f] = FrameAfterFetch(o)]
    /\ settled' = [settled EXCEPT ![f] = Settled(o, {"Trailer", "Teaser", "Clip"})]
    /\ lastEvent' = "resolve"
    /\ UNCHANGED <<previewTimer, armed, children, fetched, swept, nextId,
                   pointerOver, lastPointer>>

\* variant: the handle is forgotten but the timer is left running
ClearTimeoutForgotten(timers, id) == timers

\* clearTimeout(id): a fired or cleared id is a no-op
ClearTimeout(timers, id) == timers \ {id}

\* variant: the frame is looked up but never removed
RemoveFirstFrameSkipped(kids) == kids

\* el.querySelector(".preview-frame") then frame.remove(): drops the first frame
RemoveFirstFrame(kids) == IF kids = <<>> THEN kids ELSE Tail(kids)

\* mouseleave
MouseLeave ==
  /\ armed' = IF previewTimer # 0 THEN ClearTimeout(armed, previewTimer) ELSE armed
  /\ previewTimer' = 0
  /\ children' = RemoveFirstFrame(children)
  /\ swept' = swept \cup (IF lastPointer = "enter" THEN {nextId - 1} \cap armed ELSE {})
  /\ pointerOver' = FALSE
  /\ lastPointer' = "leave"
  /\ lastEvent' = "leave"
  /\ UNCHANGED <<frames, inflight, fetched, settled, nextId>>

NextCard == MouseEnter \/ TimerFire \/ FetchResolve \/ MouseLeave

\* the same card when its handlers are invoked in any order
NextCardAnyOrder == OnMouseEnter \/ TimerFire \/ FetchResolve \/ MouseLeave

\* ------------------------------------------------------------------ hero
\* the movies an item can be: 1 has a backdrop_path and a poster_path,
\* 2 only a poster_path, 3 neither
Movies == {1, 2, 3}
HasBackdrop(m) == m = 1
HasPoster(m) == m \in {1, 2}
HeroIds == 1..MaxHero

NoMedia == [kind |-> "none", movie |-> 0, key |-> 0, image |-> ""]
\* the iframe of the selected video
HeroPlayer(m, k) == [kind |-> "player", movie |-> m, key |-> k, image |-> ""]
\* the background poster: backdrop_path, else poster_path, else nothing
HeroPoster(m) ==
  [kind |-> "poster", movie |-> m, key |-> 0,
   image |-> IF HasBackdrop(m) THEN "backdrop"
             ELSE IF HasPoster(m) THEN "poster" ELSE ""]

HeroInit ==
  /\ heroTitle = 0
  /\ heroMedia = NoMedia
  /\ heroPending = {}
  /\ heroMovie = [i \in HeroIds |-> 0]
  /\ heroOutcome = [i \in HeroIds |-> "none"]
  /\ heroCount = 0

\* setHero(movie) up to its await: show title and overview, issue the fetch
SetHero(m) ==
  /\ heroCount < MaxHero
  /\ heroTitle' = m
  /\ heroCount' = heroCount + 1
  /\ heroPending' = heroPending \cup {heroCount + 1}
  /\ heroMovie' = [heroMovie EXCEPT ![heroCount + 1] = m]
  /\ UNCHANGED <<heroMedia, heroOutcome>>

\* what setHero leaves in heroVideoContainer once its fetch has settled
MediaAfterFetch(old, m, o) ==
  IF ~o.ok THEN old
  ELSE IF HeroFind(ResultsOrEmpty(o)) # 0
       THEN HeroPlayer(m, HeroFind(ResultsOrEmpty(o)))
       ELSE HeroPoster(m)

\* setHero after its await
HeroResolve ==
  \E i \in heroPending, o \in FetchOutcomes :
    /\ heroPending' = heroPending \ {i}
    /\ heroMedia' = MediaAfterFetch(heroMedia, heroMovie[i], o)
    /\ heroOutcome' = [heroOutcome EXCEPT ![i] = Settled(o, {"Trailer", "Teaser"})]
    /\ UNCHANGED <<heroTitle, heroMovie, heroCount>>

\* click on a poster card: openHeroWithMovie(movie)
OpenHeroWithMovie ==
  \E m \in Movies : SetHero(m)

NextHero == OpenHeroWithMovie \/ HeroResolve

\* ------------------------------------------------------------------ rows
NumGenres == 5
Genres == 1..NumGenres
RowLists == UNION {[1..n -> Movies] : n \in 0..MaxRowLen}
\* outcomes of tmdbFetch for a discovery page
RowOutcomes ==
  {[ok |-> FALSE, hasResults |-> FALSE, results |-> <<>>]}
  \cup {[ok |-> TRUE, hasResults |-> FALSE, results |-> <<>>]}
  \cup {[ok |-> TRUE, hasResults |-> TRUE, results |-> l] : l \in RowLists}

AbsentTrack == [kind |-> "absent", cards |-> <<>>]
LoadingTrack == [kind |-> "loading", cards |-> <<>>]
CardsTrack(items) == [kind |-> "cards", cards |-> items]
FailedTrack == [kind |-> "failed", cards |-> <<>>]
NoRowResponse == [kind |-> "none", items |-> <<>>]

RowInit ==
  /\ rowIdx = 0
  /\ rowTrack = [g \in Genres |-> AbsentTrack]
  /\ rowResponse = [g \in Genres |-> NoRowResponse]
  /\ rowRequests = [g \in Genres |-> 0]

\* makeRow after its await: one card per result, or the failure message
TrackAfterFetch(o) ==
  IF o.ok THEN CardsTrack(ResultsOrEmpty(o)) ELSE FailedTrack

\* variant: a failed row ends the loop of init
NextRowAborting(g, o) == IF o.ok THEN g + 1 ELSE NumGenres + 2

\* the loop of init: makeRow has caught its error, the next bucket follows
NextRow(g, o) == g + 1

\* DOMContentLoaded: init runs makeRow of the first bucket up to its await
PageLoad ==
  /\ rowIdx = 0
  /\ rowIdx' = 1
  /\ rowTrack' = [rowTrack EXCEPT ![1] = LoadingTrack]
  /\ rowRequests' = [rowRequests EXCEPT ![1] = @ + 1]
  /\ UNCHANGED <<rowResponse, heroVars>>

\* the fetch of the awaited row settles: makeRow renders it and returns, init
\* goes on to makeRow of the next bucket, or to the featured fetch after the last
RowSettle ==
  \E o \in RowOutcomes :
    LET g == rowIdx
        n == NextRow(g, o)
    IN  /\ g \in Genres
        /\ rowIdx' = n
        /\ rowResponse' = [rowResponse EXCEPT ![g] =
              [kind |-> IF o.ok THEN "data" ELSE "error", items |-> ResultsOrEmpty(o)]]
        /\ rowTrack' = [h \in Genres |->
              IF h = g THEN TrackAfterFetch(o)
              ELSE IF h = n THEN LoadingTrack
              ELSE rowTrack[h]]
        /\ rowRequests' = [h \in Genres |->
              IF h = n THEN rowRequests[h] + 1 ELSE rowRequests[h]]
        /\ UNCHANGED heroVars

\* the featured fetch settles: setHero of the first result, if there is one
FeaturedSettle ==
  \E o \in RowOutcomes :
    /\ rowIdx = NumGenres + 1
    /\ rowIdx' = NumGenres + 2
    /\ IF o.ok /\ ResultsOrEmpty(o) # <<>>
       THEN SetHero(ResultsOrEmpty(o)[1])
       ELSE UNCHANGED heroVars
    /\ UNCHANGED <<rowTrack, rowResponse, rowRequests>>

NextRows == PageLoad \/ RowSettle \/ FeaturedSettle

\* ------------------------------------------------------------ dispatcher
\* a property that is not there
Undefined == "undefined"

\* JavaScript truthiness of a string-or-undefined
Truthy(s) == s # Undefined /\ s # ""
\* a || b
OrElse(a, b) == IF Truthy(a) THEN a ELSE b

ApiKeys == {Undefined, "", "k3y"}
QueryTypes == {Undefined, "", "discover", "videos", "movie", "details", "tv"}
MovieIds == {Undefined, "", "550"}
GenreIds == {Undefined, "878"}
SortKeys == {Undefined, "vote_average.desc"}
Limits == {Undefined, "10"}
\* event.queryStringParameters || {}
Events == [type : QueryTypes, movieId : MovieIds, genre : GenreIds,
           sort_by : SortKeys, limit : Limits]
NoEvent == [type |-> Undefined, movieId |-> Undefined, genre |-> Undefined,
            sort_by |-> Undefined, limit |-> Undefined]

\* structured values and the texts that carry them
DataValue(x) == [tag |-> "data", x |-> x]
ErrorValue(m) == [tag |-> "error", x |-> m]
RawValue(x) == [tag |-> "raw", x |-> x]
\* JSON.stringify: the canonical text of a value
Stringify(v) == [form |-> "canon", v |-> v]
\* the same value written with other whitespace
Spaced(v) == [form |-> "spaced", v |-> v]
\* a text that is not JSON
RawText(x) == [form |-> "raw", v |-> RawValue(x)]
NoText == RawText("")
\* JSON.parse: the value of a text, decodable only if the text is JSON
Decodable(t) == t.form # "raw"
Parse(t) == t.v

UpstreamTexts == {Stringify(DataValue("results")), Spaced(DataValue("results")),
                  Stringify(ErrorValue("status_message")), RawText("<html>"), NoText}
Statuses == {200, 201, 401, 404, 503}
\* variant: only 200 counts as success
OkOnly200(status) == status = 200

\* Response.ok
Ok(status) == status >= 200 /\ status <= 299

\* how the upstream fetch settles: rejected, or a response whose body may fail to read
UpstreamOutcomes ==
  {[kind |-> "rejected", status |-> 0, text |-> NoText, readable |-> FALSE]}
  \cup [kind : {"response"}, status : Statuses, text : UpstreamTexts, readable : BOOLEAN]
NoOutcome == [kind |-> "none", status |-> 0, text |-> NoText, readable |-> FALSE]

ContentTypeJson == <<"Content-Type", "application/json">>
AllowAnyOrigin == <<"Access-Control-Allow-Origin", "*">>
Envelope(status, body, hdrs) == [statusCode |-> status, body |-> body, headers |-> hdrs]
NoResponse == Envelope(0, NoText, {})

NoUrl == [path |-> "", id |-> Undefined, api_key |-> Undefined,
          with_genres |-> Undefined, sort_by |-> Undefined, page |-> Undefined]
\* variant: limit is sent on as the page
DiscoverUrlPaged(apiKey, qs) ==
  [path |-> "discover/movie", id |-> Undefined, api_key |-> apiKey,
   with_genres |-> OrElse(qs.genre, ""),
   sort_by |-> OrElse(qs.sort_by, "popularity.desc"), page |-> OrElse(qs.limit, "1")]

DiscoverUrl(apiKey, qs) ==
  [path |-> "discover/movie", id |-> Undefined, api_key |-> apiKey,
   with_genres |-> OrElse(qs.genre, ""),
   sort_by |-> OrElse(qs.sort_by, "popularity.desc"), page |-> "1"]
VideosUrl(apiKey, movieId) ==
  [path |-> "movie/{id}/videos", id |-> movieId, api_key |-> apiKey,
   with_genres |-> Undefined, sort_by |-> Undefined, page |-> Undefined]
MovieUrl(apiKey, movieId) ==
  [path |-> "movie/{id}", id |-> movieId, api_key |-> apiKey,
   with_genres |-> Undefined, sort_by |-> Undefined, page |-> Undefined]

\* err.message of what the awaits after validation can throw
ErrorMessage(o) ==
  IF o.kind = "rejected" THEN "fetch failed"
  ELSE IF ~o.readable THEN "terminated"
  ELSE "Unexpected token"

\* variant: the error is thrown on instead of being turned into an envelope
CaughtRethrown(o) == [promise |-> "rejected", response |-> NoResponse]

\* the catch block
Caught(o) ==
  [promise |-> "fulfilled",
   response |-> Envelope(500, Stringify(ErrorValue(ErrorMessage(o))), {})]

\* variant: the pass-through shares the headers of the success envelope
AfterFetchSharedHeaders(o) ==
  IF o.kind = "rejected" THEN Caught(o)
  ELSE IF ~Ok(o.status)
       THEN IF o.readable
            THEN [promise |-> "fulfilled",
                  response |-> Envelope(o.status, o.text,
                                        {ContentTypeJson, AllowAnyOrigin})]
            ELSE Caught(o)
       ELSE IF o.readable /\ Decodable(o.text)
            THEN [promise |-> "fulfilled",
                  response |-> Envelope(200, Stringify(Parse(o.text)),
                                        {ContentTypeJson, AllowAnyOrigin})]
            ELSE Caught(o)

\* the handler from the settling of its upstream fetch to its return
AfterFetch(o) ==
  IF o.kind = "rejected" THEN Caught(o)
  ELSE IF ~Ok(o.status)
       THEN IF o.readable
            THEN [promise |-> "fulfilled",
                  response |-> Envelope(o.status, o.text, {ContentTypeJson})]
            ELSE Caught(o)
       ELSE IF o.readable /\ Decodable(o.text)
            THEN [promise |-> "fulfilled",
                  response |-> Envelope(200, Stringify(Parse(o.text)),
                                        {ContentTypeJson, AllowAnyOrigin})]
            ELSE Caught(o)

\* variant: the type is taken as sent
QueryTypeAsSent(qs) == qs.type

\* qs.type || "discover"
QueryType(qs) == OrElse(qs.type, "discover")

\* variant: only an absent variable counts as missing
KeyMissingStrict(apiKey) == apiKey = Undefined

\* !apiKey
KeyMissing(apiKey) == ~Truthy(apiKey)
\* variant: only an absent parameter counts as missing
MovieIdMissingStrict(movieId) == movieId = Undefined

\* !movieId
MovieIdMissing(movieId) == ~Truthy(movieId)

\* variant: the final else is missing and an unknown type is served as discover
ValidateWithoutElse(apiKey, qs) ==
  LET type == QueryType(qs)
      early(status, msg) ==
        [done |-> TRUE, url |-> NoUrl,
         response |-> Envelope(status, Stringify(ErrorValue(msg)), {})]
      call(url) == [done |-> FALSE, url |-> url, response |-> NoResponse]
  IN  IF KeyMissing(apiKey)
      THEN early(500, "TMDB_API_KEY not set in environment variables")
      ELSE IF type = "videos"
           THEN IF MovieIdMissing(qs.movieId) THEN early(400, "movieId required")
                ELSE call(VideosUrl(apiKey, qs.movieId))
      ELSE IF type = "movie"
           THEN IF MovieIdMissing(qs.movieId) THEN early(400, "movieId required")
                ELSE call(MovieUrl(apiKey, qs.movieId))
      ELSE call(DiscoverUrl(apiKey, qs))

\* the handler from its entry to its first await or an early return:
\* the envelope returned early, or the URL to fetch
Validate(apiKey, qs) ==
  LET type == QueryType(qs)
      early(status, msg) ==
        [done |-> TRUE, url |-> NoUrl,
         response |-> Envelope(status, Stringify(ErrorValue(msg)), {})]
      call(url) == [done |-> FALSE, url |-> url, response |-> NoResponse]
  IN  IF KeyMissing(apiKey)
      THEN early(500, "TMDB_API_KEY not set in environment variables")
      ELSE IF type = "discover" THEN call(DiscoverUrl(apiKey, qs))
      ELSE IF type = "videos"
           THEN IF MovieIdMissing(qs.movieId) THEN early(400, "movieId required")
                ELSE call(VideosUrl(apiKey, qs.movieId))
      ELSE IF type = "movie"
           THEN IF MovieIdMissing(qs.movieId) THEN early(400, "movieId required")
                ELSE call(MovieUrl(apiKey, qs.movieId))
      ELSE early(400, "Unknown type")

HandlerInit ==
  /\ TMDB_API_KEY \in ApiKeys
  /\ pc = "idle"
  /\ event = NoEvent
  /\ targetUrl = NoUrl
  /\ upstreamCalls = 0
  /\ upstream = NoOutcome
  /\ promise = "pending"
  /\ response = NoResponse

\* exports.handler(event) up to its early return or to the upstream fetch
InvokeWith(qs) ==
  LET v == Validate(TMDB_API_KEY, qs) IN
    /\ pc \in {"idle", "done"}
    /\ event' = qs
    /\ upstream' = NoOutcome
    /\ targetUrl' = v.url
    /\ IF v.done
       THEN /\ pc' = "done"
            /\ upstreamCalls' = 0
            /\ promise' = "fulfilled"
            /\ response' = v.response
       ELSE /\ pc' = "awaiting"
            /\ upstreamCalls' = 1
            /\ promise' = "pending"
            /\ response' = NoResponse
    /\ UNCHANGED TMDB_API_KEY

\* the platform invokes the function with any query
Invoke == \E qs \in Events : InvokeWith(qs)

\* variant: a rejected upstream fetch is issued once more
UpstreamSettleRetrying ==
  \E o \in UpstreamOutcomes :
    /\ pc = "awaiting"
    /\ IF o.kind = "rejected" /\ upstreamCalls < 2
       THEN /\ upstreamCalls' = upstreamCalls + 1
            /\ UNCHANGED <<upstream, promise, response, pc>>
       ELSE /\ upstream' = o
            /\ promise' = AfterFetch(o).promise
            /\ response' = AfterFetch(o).response
            /\ pc' = "done"
            /\ UNCHANGED upstreamCalls
    /\ UNCHANGED <<TMDB_API_KEY, event, targetUrl>>

\* the upstream fetch settles and the handler runs to its return
UpstreamSettle ==
  \E o \in UpstreamOutcomes :
    /\ pc = "awaiting"
    /\ upstream' = o
    /\ promise' = AfterFetch(o).promise
    /\ response' = AfterFetch(o).response
    /\ pc' = "done"
    /\ UNCHANGED <<TMDB_API_KEY, event, targetUrl, upstreamCalls>>

NextHandler == Invoke \/ UpstreamSettle

\* ------------------------------------------------------------- tmdbFetch
NoData == RawValue("")

ClientInit ==
  /\ clientPc = "idle"
  /\ httpRequests = 0
  /\ clientData = NoData

\* tmdbFetch(qs) up to its await: one fetch of the function URL, which invokes
\* the function with the query
TmdbFetch ==
  \E qs \in Events :
    /\ clientPc # "waiting"
    /\ clientPc' = "waiting"
    /\ httpRequests' = 1
    /\ clientData' = NoData
    /\ InvokeWith(qs)

\* tmdbFetch(qs) when its fetch rejects: the function is not reached
TmdbFetchUnreachable ==
  /\ clientPc # "waiting"
  /\ clientPc' = "threw"
  /\ httpRequests' = 1
  /\ clientData' = NoData
  /\ UNCHANGED handlerVars

\* tmdbFetch after its await: throw unless res.ok, else decode the body
TmdbFetchSettle ==
  /\ clientPc = "waiting"
  /\ pc = "done"
  /\ IF Ok(response.statusCode) /\ Decodable(response.body)
     THEN clientPc' = "returned" /\ clientData' = Parse(response.body)
     ELSE clientPc' = "threw" /\ clientData' = NoData
  /\ UNCHANGED <<httpRequests, handlerVars>>

NextFetch ==
  \/ TmdbFetch
  \/ TmdbFetchUnreachable
  \/ (UpstreamSettle /\ UNCHANGED clientVars)
  \/ TmdbFetchSettle

\* ------------------------------------------------------------- selection
SelectInit ==
  /\ results \in VideoLists
  /\ heroVid = 0
  /\ cardVid = 0
  /\ selected = FALSE

\* the two find calls applied to one list
Select ==
  /\ ~selected
  /\ heroVid' = HeroFind(results)
  /\ cardVid' = CardFind(results)
  /\ selected' = TRUE
  /\ UNCHANGED results

\* -------------------------------------------------------- specifications
\* the parts a specification does not exercise stay as constructed
HandlerQuiet ==
  /\ TMDB_API_KEY = "k3y"
  /\ pc = "idle"
  /\ event = NoEvent
  /\ targetUrl = NoUrl
  /\ upstreamCalls = 0
  /\ upstream = NoOutcome
  /\ promise = "pending"
  /\ response = NoResponse
SelectQuiet ==
  /\ results = <<>>
  /\ heroVid = 0
  /\ cardVid = 0
  /\ selected = FALSE

\* one poster card under pointer events
InitCard == CardInit /\ HandlerQuiet /\ SelectQuiet /\ RowInit /\ HeroInit /\ ClientInit
StepCard == NextCard /\ UNCHANGED <<handlerVars, selectVars, rowVars, heroVars, clientVars>>
SpecCard == InitCard /\ [][StepCard]_vars

\* one poster card whose handlers are invoked in any order
InitCardAnyOrder == CardInit /\ HandlerQuiet /\ SelectQuiet /\ RowInit /\ HeroInit /\ ClientInit
StepCardAnyOrder ==
  NextCardAnyOrder /\ UNCHANGED <<handlerVars, selectVars, rowVars, heroVars, clientVars>>
SpecCardAnyOrder == InitCardAnyOrder /\ [][StepCardAnyOrder]_vars

\* the serverless function under invocations
InitDispatch == HandlerInit /\ CardInit /\ SelectQuiet /\ RowInit /\ HeroInit /\ ClientInit
StepDispatch == NextHandler /\ UNCHANGED <<cardVars, selectVars, rowVars, heroVars, clientVars>>
SpecDispatch == InitDispatch /\ [][StepDispatch]_vars

\* the selection applied to every list
InitSelect == SelectInit /\ CardInit /\ HandlerQuiet /\ RowInit /\ HeroInit /\ ClientInit
StepSelect == Select /\ UNCHANGED <<cardVars, handlerVars, rowVars, heroVars, clientVars>>
SpecSelect == InitSelect /\ [][StepSelect]_vars

\* init: the rows one after the other, then the featured movie handed to setHero
InitRows == RowInit /\ HeroInit /\ CardInit /\ HandlerQuiet /\ SelectQuiet /\ ClientInit
StepRows == NextRows /\ UNCHANGED <<cardVars, handlerVars, selectVars, clientVars>>
SpecRows == InitRows /\ [][StepRows]_vars

\* one tmdbFetch call after the other, each served by the function
InitFetch == ClientInit /\ HandlerInit /\ CardInit /\ SelectQuiet /\ RowInit /\ HeroInit
StepFetch == NextFetch /\ UNCHANGED <<cardVars, selectVars, rowVars, heroVars>>
SpecFetch == InitFetch /\ [][StepFetch]_vars

\* the hero under clicks on poster cards
InitHero == HeroInit /\ RowInit /\ CardInit /\ HandlerQuiet /\ SelectQuiet /\ ClientInit
StepHero == NextHero /\ UNCHANGED <<cardVars, handlerVars, selectVars, rowVars, clientVars>>
SpecHero == InitHero /\ [][StepHero]_vars

\* ================================================================ claims

\* the card is Idle: no handle kept, no timer armed, no preview surface attached
Idle == previewTimer = 0 /\ armed = {} /\ children = <<>>

\* C1: race guard. Whenever the last pointer event on the card is pointer-leave,
\* no preview surface is attached to the card and no timer is armed, whatever
\* fetches are still in flight or have resolved since; in particular a fetch
\* that resolves after the pointer has left mounts nothing.
C1_LeaveWinsOverFetch ==
  lastPointer = "leave" => (children = <<>> /\ armed = {})

\* enter, timer fires, pointer leaves with the fetch in flight, the fetch then
\* resolves with a playable video
C1_Witness ==
  /\ lastPointer = "leave"
  /\ lastEvent = "resolve"
  /\ nextId = 2
  /\ fetched = {1}
  /\ frames[1].kind = "player"

\* C2: debounce. A fetch is issued only by the firing of an armed timer; a
\* pointer-leave cancels the timer of the hover session it ends, and a session
\* left before its timer fired never issues a fetch.
C2_Debounce ==
  [][/\ (fetched' # fetched =>
           \E t \in armed : t \notin armed' /\ fetched' = fetched \cup {t})
     /\ (lastEvent' = "leave" /\ lastPointer = "enter" => (nextId - 1) \notin armed')
     /\ (swept' \cap fetched' = {})]_vars

\* the pointer has swept over the card several times and nothing was fetched
C2_Witness ==
  /\ Cardinality(swept) >= 2
  /\ fetched = {}
  /\ lastPointer = "leave"

\* C3: pointer-leave is total and idempotent. It can be invoked in every state,
\* it always leaves the card Idle, and a pointer-leave that directly follows a
\* pointer-leave changes nothing.
C3_LeaveIdempotent ==
  [][/\ ENABLED MouseLeave
     /\ (lastEvent' = "leave" => Idle')
     /\ (lastEvent = "leave" /\ lastEvent' = "leave" => UNCHANGED cardVars)]_vars

\* pointer-leave before any pointer-enter
C3_Witness ==
  /\ lastEvent = "leave"
  /\ nextId = 1
  /\ Idle

\* C4: with the credential set, a videos or movie query without an item
\* identifier is answered 400 "movieId required" and no upstream call is made.
C4_MissingMovieId ==
  (/\ TMDB_API_KEY \notin {Undefined, ""}
   /\ event.type \in {"videos", "movie"}
   /\ event.movieId \in {Undefined, ""})
  => /\ pc = "done"
     /\ response.statusCode = 400
     /\ response.body = Stringify(ErrorValue("movieId required"))
     /\ upstreamCalls = 0
     /\ upstream = NoOutcome

\* a movie query with an empty movieId was answered
C4_Witness ==
  /\ TMDB_API_KEY = "k3y"
  /\ event.type = "movie"
  /\ event.movieId = ""
  /\ response.statusCode = 400

\* C5: with the credential set, a query whose type is none of discover, videos
\* and movie is answered 400 "Unknown type" and no upstream call is made.
C5_UnknownType ==
  (/\ TMDB_API_KEY \notin {Undefined, ""}
   /\ pc # "idle"
   /\ event.type \notin {Undefined, "", "discover", "videos", "movie"})
  => /\ pc = "done"
     /\ response.statusCode = 400
     /\ response.body = Stringify(ErrorValue("Unknown type"))
     /\ upstreamCalls = 0
     /\ upstream = NoOutcome

\* a details query (the name the repository does not use) was answered
C5_Witness ==
  /\ TMDB_API_KEY = "k3y"
  /\ event.type = "details"
  /\ event.movieId = "550"
  /\ response.statusCode = 400

\* C6: with the credential unset every query of every kind is answered 500 and
\* no upstream call is attempted; the credential check comes before validation.
C6_CredentialUnset ==
  (TMDB_API_KEY \in {Undefined, ""} /\ pc # "idle")
  => /\ pc = "done"
     /\ response.statusCode = 500
     /\ upstreamCalls = 0
     /\ targetUrl = NoUrl
     /\ upstream = NoOutcome

\* an invalid query (videos without movieId) was answered 500 under an empty credential
C6_Witness ==
  /\ TMDB_API_KEY = ""
  /\ event.type = "videos"
  /\ event.movieId = Undefined
  /\ response.statusCode = 500

\* C7: pass-through. When the upstream answers a non-2xx status S with body B,
\* the envelope has status S and body B unmodified and carries no
\* Access-Control-Allow-Origin header.
C7_PassThrough ==
  (/\ pc = "done"
   /\ upstream.kind = "response"
   /\ upstream.readable
   /\ ~(upstream.status >= 200 /\ upstream.status <= 299))
  => /\ response.statusCode = upstream.status
     /\ response.body = upstream.text
     /\ AllowAnyOrigin \notin response.headers

\* an upstream 404 with a body that is not JSON was passed on
C7_Witness ==
  /\ pc = "done"
  /\ upstream.kind = "response"
  /\ upstream.status = 404
  /\ upstream.text = RawText("<html>")
  /\ response.statusCode = 404
  /\ response.body = RawText("<html>")

\* the upstream answered 2xx with a body that was read and decodes
UpstreamSuccess ==
  /\ upstream.kind = "response"
  /\ upstream.status >= 200 /\ upstream.status <= 299
  /\ upstream.readable
  /\ upstream.text.form # "raw"

\* C8: success envelope. When the upstream answers 2xx with a decodable body D
\* the envelope has status 200, a body that decodes to D and the header
\* Access-Control-Allow-Origin: *; an envelope with status 200 is returned on
\* no other path.
C8_SuccessEnvelope ==
  pc = "done" =>
    /\ UpstreamSuccess =>
         /\ response.statusCode = 200
         /\ response.body.form # "raw"
         /\ response.body.v = upstream.text.v
         /\ AllowAnyOrigin \in response.headers
    /\ response.statusCode = 200 => UpstreamSuccess

\* an upstream 201 whose JSON is written with other whitespace came back as 200
C8_Witness ==
  /\ pc = "done"
  /\ upstream.status = 201
  /\ upstream.text = Spaced(DataValue("results"))
  /\ upstream.readable
  /\ response.statusCode = 200
  /\ response.body = Stringify(DataValue("results"))

\* the upstream call failed in transport, or its body could not be read, or
\* its 2xx body does not decode
UpstreamFailure ==
  \/ upstream.kind = "rejected"
  \/ /\ upstream.kind = "response"
     /\ \/ ~upstream.readable
        \/ /\ upstream.status >= 200 /\ upstream.status <= 299
           /\ upstream.text.form = "raw"

\* C9: the handler never rejects. Its promise is pending while the upstream
\* call is awaited and fulfilled with an envelope afterwards, and a failure of
\* the upstream call after validation is answered 500 with {error: message}.
C9_NeverThrows ==
  /\ promise # "rejected"
  /\ pc = "done" =>
       /\ promise = "fulfilled"
       /\ response.statusCode \in {200, 400, 500} \cup Statuses
       /\ UpstreamFailure =>
            /\ response.statusCode = 500
            /\ response.body.form = "canon"
            /\ response.body.v.tag = "error"
            /\ response.body.v.x \in {"fetch failed", "terminated", "Unexpected token"}

\* an upstream 200 whose body is not JSON was answered 500
C9_Witness ==
  /\ pc = "done"
  /\ upstream.kind = "response"
  /\ upstream.status = 200
  /\ upstream.readable
  /\ upstream.text = RawText("<html>")
  /\ response.statusCode = 500

\* i is the first position of list whose entry is on YouTube with a type in
\* accepted, or 0 when list has no such entry
FirstYouTubeOf(i, list, accepted) ==
  LET hits == {j \in 1..Len(list) : list[j].site = "YouTube" /\ list[j].type \in accepted}
  IN  IF hits = {} THEN i = 0
      ELSE i \in hits /\ \A j \in hits : i <= j

\* C10: preview selection. The hero selects the first YouTube Trailer or Teaser
\* of the list, the card preview the first YouTube Trailer, Teaser or Clip, and
\* nothing is selected exactly when the list has no such entry.
C10_PreviewSelection ==
  selected =>
    /\ FirstYouTubeOf(heroVid, results, {"Trailer", "Teaser"})
    /\ FirstYouTubeOf(cardVid, results, {"Trailer", "Teaser", "Clip"})

\* [Vimeo Trailer, YouTube Teaser, YouTube Trailer]: both select the Teaser
C10_Witness ==
  /\ selected
  /\ results = <<[site |-> "Vimeo", type |-> "Trailer"],
                 [site |-> "YouTube", type |-> "Teaser"],
                 [site |-> "YouTube", type |-> "Trailer"]>>
  /\ heroVid = 2
  /\ cardVid = 2

\* C11: row isolation. A bucket whose discovery fetch failed shows its own
\* failure message and no cards, a bucket whose fetch succeeded shows the items
\* of its own response, and once a bucket has settled, failed or not, the next
\* bucket has been requested and its row is on the page.
C11_RowIsolation ==
  \A g \in Genres :
    /\ rowResponse[g].kind = "error" =>
         (rowTrack[g].kind = "failed" /\ rowTrack[g].cards = <<>>)
    /\ rowResponse[g].kind = "data" =>
         (rowTrack[g].kind = "cards" /\ rowTrack[g].cards = rowResponse[g].items)
    /\ (rowResponse[g].kind # "none" /\ g < NumGenres) =>
         (rowRequests[g + 1] = 1 /\ rowTrack[g + 1].kind # "absent")

\* bucket 2 failed between buckets 1 and 3, which show their cards
C11_Witness ==
  /\ rowTrack[1].kind = "cards" /\ rowTrack[1].cards # <<>>
  /\ rowResponse[2].kind = "error" /\ rowTrack[2].kind = "failed"
  /\ rowTrack[3].kind = "cards" /\ rowTrack[3].cards # <<>>

\* the background poster setHero is to show for movie m when no video plays
FallbackFor(m) ==
  [kind |-> "poster", movie |-> m, key |-> 0,
   image |-> IF m = 1 THEN "backdrop" ELSE IF m = 2 THEN "poster" ELSE ""]

\* C12: hero fallback. When the fetch of a setHero invocation settles, the hero
\* holds a player for the invoked movie if a video matches, and otherwise, on
\* no match and on a failed fetch alike, the fallback poster of that movie.
C12_HeroFallback ==
  [][\A i \in heroPending : i \notin heroPending' =>
       /\ heroOutcome'[i] = "match" =>
            (heroMedia'.kind = "player" /\ heroMedia'.movie = heroMovie[i])
       /\ heroOutcome'[i] \in {"nomatch", "error"} =>
            heroMedia' = FallbackFor(heroMovie[i])]_vars

\* C14: hero last invocation wins. Once the fetches of all setHero invocations
\* have resolved, none of them failing, the media of the hero is that of the
\* most recent invocation, the movie whose title and overview are shown.
C14_LastInvocationWins ==
  (/\ heroCount >= 2
   /\ heroPending = {}
   /\ \A i \in 1..heroCount : heroOutcome[i] # "error")
  => (heroMedia.movie = heroMovie[heroCount] /\ heroMedia.movie = heroTitle)

\* C13: discover dispatch. With the credential set a discover query always
\* leads to one upstream call of discover/movie with with_genres = genre (empty
\* when missing), sort_by = sort_by ("popularity.desc" when missing), page = 1
\* and the credential; a missing genre is not rejected and limit changes nothing.
C13_DiscoverDispatch ==
  (TMDB_API_KEY \notin {Undefined, ""} /\ event.type = "discover")
  => /\ pc \in {"awaiting", "done"}
     /\ upstreamCalls = 1
     /\ response.statusCode # 400
     /\ targetUrl =
          [path |-> "discover/movie", id |-> Undefined, api_key |-> TMDB_API_KEY,
           with_genres |-> IF event.genre = Undefined THEN "" ELSE event.genre,
           sort_by |-> IF event.sort_by = Undefined THEN "popularity.desc"
                       ELSE event.sort_by,
           page |-> "1"]

\* a discover query without genre and with a limit is on its way upstream
C13_Witness ==
  /\ TMDB_API_KEY = "k3y"
  /\ pc = "awaiting"
  /\ event.type = "discover"
  /\ event.genre = Undefined
  /\ event.limit = "10"
  /\ targetUrl.with_genres = ""
  /\ targetUrl.page = "1"

\* C15: pointer-leave clears the card from any state. After a pointer-leave,
\* whatever the order of the handler invocations before it, no timer of the
\* card is armed and no preview surface is attached to it.
C15_LeaveClearsAll ==
  [][lastEvent' = "leave" => (armed' = {} /\ Len(children') = 0)]_vars

ShownFor(outcome) ==
  IF outcome = "match" THEN "player"
  ELSE IF outcome = "nomatch" THEN "notavailable"
  ELSE IF outcome = "error" THEN "failed"
  ELSE "empty"

\* C19: hover-session isolation. Every frame shows the result of the fetch
\* issued for it and of no other: it is empty while that fetch is in flight
\* and shows that fetch's result afterwards, and the card never carries more
\* than one frame.
C19_SessionIsolation ==
  /\ Len(children) <= 1
  /\ \A f \in SessionIds :
       /\ f \notin fetched => frames[f].kind = "none"
       /\ f \in inflight => (frames[f].kind = "empty" /\ settled[f] = "none")
       /\ f \in fetched \ inflight => frames[f].kind = ShownFor(settled[f])

\* the fetch of session 1 resolved with a video after session 2 had mounted
\* its frame, which is still empty and waiting for its own fetch
C19_Witness ==
  /\ lastEvent = "resolve"
  /\ children = <<2>>
  /\ 2 \in inflight
  /\ frames[2].kind = "empty"
  /\ settled[1] = "match"
  /\ frames[1].kind = "player"

\* the query passes the validation of the function
ValidQuery ==
  \/ event.type \in {Undefined, "", "discover"}
  \/ (event.type \in {"videos", "movie"} /\ event.movieId \notin {Undefined, ""})

\* C18: no retry. A tmdbFetch call makes one fetch of the function, and an
\* invocation of the function makes one upstream call when the credential is
\* set and the query is valid and none otherwise; once the upstream call has
\* settled, failed or not, the invocation is over without a second call, and a
\* tmdbFetch that threw has not fetched again.
C18_NoRetry ==
  /\ upstreamCalls <= 1
  /\ httpRequests <= 1
  /\ pc # "idle" =>
       (upstreamCalls = 1 <=> (TMDB_API_KEY \notin {Undefined, ""} /\ ValidQuery))
  /\ upstream # NoOutcome => (pc = "done" /\ upstreamCalls = 1)
  /\ clientPc = "threw" => (pc # "awaiting" /\ httpRequests = 1)

\* the upstream call was rejected: one call, a 500 envelope, tmdbFetch threw
C18_Witness ==
  /\ clientPc = "threw"
  /\ httpRequests = 1
  /\ upstream.kind = "rejected"
  /\ upstreamCalls = 1
  /\ response.statusCode = 500

\* C20: default kind. With the credential set a request without type, or with
\* an empty one, makes one upstream call of discover/movie and is not answered
\* "Unknown type".
C20_DefaultKind ==
  (/\ TMDB_API_KEY \notin {Undefined, ""}
   /\ pc # "idle"
   /\ event.type \in {Undefined, ""})
  => /\ upstreamCalls = 1
     /\ targetUrl.path = "discover/movie"
     /\ response.body # Stringify(ErrorValue("Unknown type"))
     /\ response.statusCode # 400

\* a request with an empty type came back with the discovery page
C20_Witness ==
  /\ TMDB_API_KEY = "k3y"
  /\ pc = "done"
  /\ event.type = ""
  /\ targetUrl.path = "discover/movie"
  /\ response.statusCode = 200

\* C17: row independence. No bucket waits to be requested while the request
\* of another bucket is outstanding.
C17_RowsIndependent ==
  \A g, h \in Genres : ~(rowTrack[g].kind = "loading" /\ rowRequests[h] = 0)
====
